---- MODULE Spec2Model ----
(***************************************************************************)
(* A model of the psycopg2 demonstration scripts:                          *)
(*   real-estate-data-analysis/real_estate_import.py   (CSV import)        *)
(*   real-estate-data-analysis/property_analysis.py    (price report)      *)
(*   class-roster-database/class_roster_basic.py       (roster seeding)    *)
(*   class-roster-database/db.py                       (DB lookup class)   *)
(*   psycopg2-demo/terminal.py                         (lookup CLI)        *)
(*                                                                         *)
(* Text values that the code parses are sequences of one-character         *)
(* strings (<<"1","2">> is "12"); text values that the code only passes    *)
(* along are TLA+ strings.  Python's None is the value None below.         *)
(***************************************************************************)
EXTENDS Integers, Sequences, FiniteSets, TLC

VARIABLES
    store,      \* committed tables of the database, as every session sees them,
                \* and (real-estate database) its TimeZone setting
    script,     \* the script (process) now running, "idle" between runs
    pc,         \* position of the running script
    env,        \* the environment variables that are set for the running script
    conn,       \* the script's name `conn`: "unbound", "open" or "closed"
    cur,        \* the script's name `cur`: "unbound", "open" or "closed"
    tx,         \* the tables as the script's open transaction sees them
    csv,        \* the file at PATH_TO_CSV: absent, or its data rows
    rowIdx,     \* the data row the import loop is at
    issued,     \* the CSV rows an INSERT was sent for, in the order sent
    commits,    \* the number of successful conn.commit() calls of this run
    calls,      \* the number of DB.main calls made on the DB instance
    printed,    \* what the script has printed: the arguments of each print call
    result,     \* the report script's `result`: the rows its query returned
    exc,        \* the exception that left the running code uncaught, or "none"
    prior,      \* the committed tables when the running script started
    db,         \* the DB instance: its connection and cursor attributes
    name,       \* the name DB.main was called with
    answer,     \* what DB.main returned to its caller
    caller,     \* who called DB.main: "terminal" or "direct"
    rawRow,     \* the argument of clean_data
    cleaned     \* the outcome of clean_data(rawRow)

vars == <<store, script, pc, env, conn, cur, tx, csv, rowIdx, issued, commits,
          calls, printed, result, exc, prior, db, name, answer, caller, rawRow, cleaned>>

(***************************************************************************)
(* Bounds of the model.                                                    *)
(***************************************************************************)
MaxLen == 2        \* longest parsed text drawn as an input of clean_data
MaxRows == 2       \* most data rows of a CSV file
MaxStudents == 2   \* most rows of a students table that was not seeded here
MaxCalls == 2      \* most DB.main calls on one DB instance

(***************************************************************************)
(* Text helpers.                                                           *)
(***************************************************************************)
None == <<"<None>">>

DigitChars == <<"0", "1", "2", "3", "4", "5", "6", "7", "8", "9">>

IsDigit(c) == \E i \in 1..10 : DigitChars[i] = c

DigitVal(c) == (CHOOSE i \in 1..10 : DigitChars[i] = c) - 1

RECURSIVE DigitsVal(_)
\* the number a sequence of digits writes, characters that are no digit skipped
DigitsVal(s) ==
    IF s = <<>> THEN 0
    ELSE LET c == s[Len(s)]
             front == SubSeq(s, 1, Len(s) - 1)
         IN IF IsDigit(c) THEN 10 * DigitsVal(front) + DigitVal(c)
            ELSE DigitsVal(front)

RECURSIVE StripLeft(_)
StripLeft(s) ==
    IF s # <<>> /\ s[1] = " " THEN StripLeft(Tail(s)) ELSE s

RECURSIVE StripRight(_)
StripRight(s) ==
    IF s # <<>> /\ s[Len(s)] = " " THEN StripRight(SubSeq(s, 1, Len(s) - 1)) ELSE s

\* str.strip(), for the one whitespace character of the input alphabet
Strip(s) == StripRight(StripLeft(s))

RECURSIVE NatToStr(_)
NatToStr(n) ==
    IF n < 10 THEN <<DigitChars[n + 1]>>
    ELSE NatToStr(n \div 10) \o <<DigitChars[(n % 10) + 1]>>

\* Python's str() of an int
IntToStr(n) == IF n < 0 THEN <<"-">> \o NatToStr(-n) ELSE NatToStr(n)

HasSign(t) == t # <<>> /\ t[1] \in {"+", "-"}

Unsigned(t) == IF HasSign(t) THEN Tail(t) ELSE t

Failed(kind, field) == [ok |-> FALSE, val |-> 0, err |-> kind, field |-> field]

(***************************************************************************)
(* int(x) of Python's built-in, as clean_data calls it.                    *)
(***************************************************************************)
PyIntBodyOk(b) ==
    /\ b # <<>>
    /\ \A i \in 1..Len(b) : IsDigit(b[i]) \/ b[i] = "_"
    /\ IsDigit(b[1]) /\ IsDigit(b[Len(b)])
    /\ \A i \in 1..(Len(b) - 1) : ~(b[i] = "_" /\ b[i + 1] = "_")

\* the conversion with the sign dropped
PyInt_Unsigned(s) ==
    IF s = None THEN Failed("TypeError", "")
    ELSE LET b == Unsigned(Strip(s))
         IN IF ~PyIntBodyOk(b) THEN Failed("ValueError", "")
            ELSE [ok |-> TRUE, val |-> DigitsVal(b), err |-> "none", field |-> ""]

PyInt(s) ==
    IF s = None THEN Failed("TypeError", "")
    ELSE LET t == Strip(s)
             b == Unsigned(t)
         IN IF ~PyIntBodyOk(b) THEN Failed("ValueError", "")
            ELSE [ok |-> TRUE,
                  val |-> IF HasSign(t) /\ t[1] = "-" THEN -DigitsVal(b) ELSE DigitsVal(b),
                  err |-> "none", field |-> ""]

(***************************************************************************)
(* decimal.Decimal(x), for plain decimal notation: an optional sign, then  *)
(* digits with at most one point; surrounding blanks and underscores are   *)
(* dropped.  The value is coefficient * 10^exponent, as Decimal.as_tuple() *)
(* gives it.                                                               *)
(***************************************************************************)
RECURSIVE DropUnderscores(_)
DropUnderscores(s) ==
    IF s = <<>> THEN <<>>
    ELSE IF s[1] = "_" THEN DropUnderscores(Tail(s))
    ELSE <<s[1]>> \o DropUnderscores(Tail(s))

PointsOf(b) == {i \in 1..Len(b) : b[i] = "."}

PyDecimalBodyOk(b) ==
    /\ \A i \in 1..Len(b) : IsDigit(b[i]) \/ b[i] = "."
    /\ Cardinality(PointsOf(b)) <= 1
    /\ \E i \in 1..Len(b) : IsDigit(b[i])

PyDecimal(s) ==
    IF s = None THEN Failed("TypeError", "")
    ELSE LET t == DropUnderscores(Strip(s))
             b == Unsigned(t)
         IN IF ~PyDecimalBodyOk(b) THEN Failed("InvalidOperation", "")
            ELSE [ok |-> TRUE,
                  val |-> [sign |-> IF HasSign(t) /\ t[1] = "-" THEN 1 ELSE 0,
                           coeff |-> DigitsVal(b),
                           exp |-> IF PointsOf(b) = {} THEN 0
                                   ELSE -(Len(b) - (CHOOSE i \in PointsOf(b) : TRUE))],
                  err |-> "none", field |-> ""]

(***************************************************************************)
(* dateutil's parser.parse(x, tzinfos={"EDT": America/New_York}), on the   *)
(* date texts of the model.  A text with no date in it raises ParserError. *)
(***************************************************************************)
tzinfos == [EDT |-> "America/New_York"]

KnownDates ==
    [text : {"Wed May 21 00:00:00 EDT 2008"},
     at : {[year |-> 2008, month |-> 5, day |-> 21, hour |-> 0, minute |-> 0,
            second |-> 0, tzinfo |-> tzinfos.EDT]}]
    \cup
    [text : {"2024-05-01 10:00:00 EDT"},
     at : {[year |-> 2024, month |-> 5, day |-> 1, hour |-> 10, minute |-> 0,
            second |-> 0, tzinfo |-> tzinfos.EDT]}]

ParseDate(s) ==
    IF \E d \in KnownDates : d.text = s
    THEN [ok |-> TRUE, val |-> (CHOOSE d \in KnownDates : d.text = s).at,
          err |-> "none", field |-> ""]
    ELSE Failed("ParserError", "")

(***************************************************************************)
(* clean_data(csv_row).  The conversions run in the order of the source's  *)
(* statements and the first one that raises ends the call.  `arg` is the   *)
(* csv_row dictionary as the call leaves it.                               *)
(***************************************************************************)
Raised(kind, field, csv_row) ==
    [ok |-> FALSE, rec |-> <<>>, err |-> kind, field |-> field, arg |-> csv_row]

clean_data(csv_row) ==
    LET beds == PyInt(csv_row.beds)
        baths == PyInt(csv_row.baths)
        sqft == PyInt(csv_row.sq__ft)
        date == ParseDate(csv_row.sale_date)
        lat == PyDecimal(csv_row.latitude)
        lon == PyDecimal(csv_row.longitude)
    IN IF ~beds.ok THEN Raised(beds.err, "beds", csv_row)
       ELSE IF ~baths.ok THEN Raised(baths.err, "baths", csv_row)
       ELSE IF ~sqft.ok THEN Raised(sqft.err, "sq__ft", csv_row)
       ELSE IF ~date.ok THEN Raised(date.err, "sale_date", csv_row)
       ELSE IF ~lat.ok THEN Raised(lat.err, "latitude", csv_row)
       ELSE IF ~lon.ok THEN Raised(lon.err, "longitude", csv_row)
       ELSE [ok |-> TRUE,
             rec |-> [street_address |-> csv_row.street,
                      city |-> csv_row.city,
                      zip_code |-> csv_row.zip,
                      state |-> csv_row.state,
                      number_of_beds |-> beds.val,
                      number_of_baths |-> baths.val,
                      square_feet |-> sqft.val,
                      property_type |-> csv_row.type,
                      sale_date |-> date.val,
                      sale_price |-> csv_row.price,
                      latitude |-> lat.val,
                      longitude |-> lon.val],
             err |-> "none", field |-> "", arg |-> csv_row]

(***************************************************************************)
(* Inputs of clean_data: a row of the sample file in which one parsed      *)
(* column holds any text of up to MaxLen characters and every other parsed *)
(* column holds a text that converts or one that does not.                 *)
(***************************************************************************)
Alphabet == {"0", "1", "-", "+", " ", "_", ".", "x"}

RECURSIVE TextsOfLen(_)
TextsOfLen(n) ==
    IF n = 0 THEN {<<>>}
    ELSE {<<c>> \o t : c \in Alphabet, t \in TextsOfLen(n - 1)}

Texts == UNION {TextsOfLen(n) : n \in 0..MaxLen}

GoodRow ==
    [street |-> "3526 HIGH ST", city |-> "SACRAMENTO", zip |-> "95838", state |-> "CA",
     beds |-> <<"2">>, baths |-> <<"1">>, sq__ft |-> <<"8", "3", "6">>,
     type |-> "Residential", sale_date |-> "Wed May 21 00:00:00 EDT 2008",
     price |-> <<"5", "9", "2", "2", "2">>,
     latitude |-> <<"3", "8", ".", "6", "3">>,
     longitude |-> <<"-", "1", "2", "1", ".", "4", "3">>]

ParsedColumns == {"beds", "baths", "sq__ft", "latitude", "longitude"}

CleanInputs ==
    {[c \in DOMAIN GoodRow |->
        IF c = focus THEN text
        ELSE IF c \in ParsedColumns THEN (IF pick[c] THEN GoodRow[c] ELSE <<"x">>)
        ELSE IF c = "sale_date" THEN date
        ELSE GoodRow[c]] :
     focus \in ParsedColumns, text \in Texts \cup {None},
     pick \in [ParsedColumns -> BOOLEAN],
     date \in {GoodRow.sale_date, "2024-05-01 10:00:00 EDT", "not a date"}}

(***************************************************************************)
(* The database.  A table is absent or holds its rows in scan order.       *)
(***************************************************************************)
NoTable == [exists |-> FALSE, rows |-> <<>>]

EmptyTable == [exists |-> TRUE, rows |-> <<>>]

NoTables == [properties |-> NoTable, students |-> NoTable]

\* the session time zones of the model: the TimeZone setting of the database
SessionZones == {"UTC", "America/New_York"}

\* a real-estate database before any script ran: no tables, and the TimeZone
\* setting its sessions start with
Databases ==
    {[properties |-> NoTable, students |-> NoTable, TimeZone |-> z] : z \in SessionZones}

NoFile == [exists |-> FALSE, rows |-> <<>>]

NotCalled == [ok |-> FALSE, rec |-> <<>>, err |-> "not called", field |-> "", arg |-> <<>>]

\* no script is running: every name of a script is unbound
Idle ==
    /\ script = "idle" /\ pc = "idle" /\ env = {}
    /\ conn = "unbound" /\ cur = "unbound" /\ tx = NoTables
    /\ csv = NoFile /\ rowIdx = 0 /\ issued = <<>> /\ commits = 0 /\ calls = 0
    /\ printed = <<>> /\ result = {} /\ exc = "none"
    /\ db = [connection |-> "None", cursor |-> "None"]
    /\ name = "" /\ answer = None /\ caller = "nobody"

(***************************************************************************)
(* clean_data as an operation: called once on a drawn row.                 *)
(***************************************************************************)
InitClean ==
    /\ Idle
    /\ store = NoTables /\ prior = NoTables
    /\ rawRow \in CleanInputs
    /\ cleaned = NotCalled

CleanData ==
    /\ cleaned.err = "not called"
    /\ cleaned' = clean_data(rawRow)
    /\ rawRow' = cleaned'.arg
    /\ UNCHANGED <<store, script, pc, env, conn, cur, tx, csv, rowIdx, issued, commits,
                   calls, printed, result, exc, prior, db, name, answer, caller>>

NextClean == CleanData

SpecClean == InitClean /\ [][NextClean]_vars

(***************************************************************************)
(* C10.                                                                    *)
(***************************************************************************)
\* the twelve columns of the properties table that the import fills
DestinationFields ==
    {"street_address", "city", "zip_code", "state", "number_of_beds", "number_of_baths",
     "square_feet", "property_type", "sale_date", "sale_price", "latitude", "longitude"}

\* "0", or an optional minus sign and digits that do not start with 0
IsCanonicalInt(s) ==
    /\ s # None
    /\ LET b == IF s # <<>> /\ s[1] = "-" THEN Tail(s) ELSE s
       IN /\ b # <<>>
          /\ \A i \in 1..Len(b) : IsDigit(b[i])
          /\ (b[1] = "0" => s = <<"0">>)

CanonicalCase ==
    /\ cleaned.err # "not called"
    /\ IsCanonicalInt(rawRow.beds)
    /\ IsCanonicalInt(rawRow.baths)
    /\ IsCanonicalInt(rawRow.sq__ft)

CleanedAsClaimed ==
    /\ cleaned.ok
    /\ DOMAIN cleaned.rec = DestinationFields
    /\ cleaned.rec.street_address = rawRow.street
    /\ cleaned.rec.zip_code = rawRow.zip
    /\ cleaned.rec.property_type = rawRow.type
    /\ IntToStr(cleaned.rec.square_feet) = rawRow.sq__ft
    /\ IntToStr(cleaned.rec.number_of_beds) = rawRow.beds
    /\ IntToStr(cleaned.rec.number_of_baths) = rawRow.baths
    /\ cleaned.rec.sale_price = rawRow.price
    /\ cleaned.arg = rawRow

\* C10 as stated: for every raw row whose beds, baths and sq__ft are canonical
\* base-10 integer texts, clean_data returns a record with exactly the twelve
\* destination fields, the renamed columns under their new names, the three
\* integer fields equal to the integer their text writes, sale_price the
\* unchanged text, and the input row unmodified.
C10_Original == CanonicalCase => CleanedAsClaimed

\* C10 amended: for such a row clean_data returns that record unless the
\* conversion of sale_date, latitude or longitude raises; then it returns nothing
\* and the input row is still unmodified.
C10_CleanCanonical ==
    CanonicalCase =>
        \/ CleanedAsClaimed
        \/ /\ ~cleaned.ok
           /\ cleaned.field \in {"sale_date", "latitude", "longitude"}
           /\ cleaned.arg = rawRow

C10_Witness ==
    /\ CanonicalCase
    /\ cleaned.ok
    /\ rawRow.beds = <<"-", "1">>
    /\ cleaned.rec.number_of_beds = -1

(***************************************************************************)
(* The environment of a script: the variables os.getenv finds.  An unset   *)
(* variable reads as None.                                                 *)
(***************************************************************************)
ImportVars ==
    {"REAL_ESTATE_DBNAME", "HREAL_ESTATE_HOST", "REAL_ESTATE_USER",
     "REAL_ESTATE_PASSWORD", "REAL_ESTATE_PORT", "PATH_TO_CSV"}

AnalysisVars == {"REAL_ESTATE_DBNAME", "REAL_ESTATE_USER", "REAL_ESTATE_PASSWORD"}

RosterVars ==
    {"CLASS_ROASTER_DBNAME", "CLASS_ROASTER_HOST", "CLASS_ROASTER_USER",
     "CLASS_ROASTER_PASSWORD", "CLASS_ROASTER_PORT"}

\* every required variable set, or all but one of them
Environments(required) == {required} \cup {required \ {v} : v \in required}

\* the exceptions that `except psycopg2.Error` catches
Psycopg2Errors == {"OperationalError", "ProgrammingError", "DataError"}

(***************************************************************************)
(* What the store does with a statement.                                   *)
(***************************************************************************)
\* the integer column's input conversion of a quoted text: blanks, a sign, digits
PgInt4In(s) ==
    LET t == Strip(s)
        b == Unsigned(t)
        v == IF HasSign(t) /\ t[1] = "-" THEN -DigitsVal(b) ELSE DigitsVal(b)
    IN IF b = <<>> \/ \E i \in 1..Len(b) : ~IsDigit(b[i]) THEN Failed("DataError", "sale_price")
       ELSE IF v > 2147483647 \/ v < -2147483647 - 1 THEN Failed("DataError", "sale_price")
       ELSE [ok |-> TRUE, val |-> v, err |-> "none", field |-> ""]

\* a drop that leaves the table and its rows in place
DropTable_Keep(tables, t) == tables

\* DROP TABLE IF EXISTS t
DropTable(tables, t) == [tables EXCEPT ![t] = NoTable]

\* CREATE TABLE IF NOT EXISTS t (...)
CreateTable(tables, t) ==
    IF tables[t].exists THEN tables ELSE [tables EXCEPT ![t] = EmptyTable]

\* hours east of UTC of a zone at a local date; America/New_York is on daylight
\* time from April to October and on standard time from December to February
\* (the date texts of the model are in May; March and November, where the
\* change falls inside the month, are not among them)
UtcOffset(zone, at) ==
    IF zone = "UTC" THEN 0
    ELSE IF at.month \in 4..10 THEN -4 ELSE -5

IsLeap(y) == (y % 4 = 0 /\ y % 100 # 0) \/ y % 400 = 0

DaysIn(y, m) ==
    IF m = 2 THEN (IF IsLeap(y) THEN 29 ELSE 28)
    ELSE IF m \in {4, 6, 9, 11} THEN 30 ELSE 31

NextDay(at) ==
    IF at.day < DaysIn(at.year, at.month) THEN [at EXCEPT !.day = @ + 1]
    ELSE IF at.month < 12 THEN [at EXCEPT !.month = @ + 1, !.day = 1]
    ELSE [at EXCEPT !.year = @ + 1, !.month = 1, !.day = 1]

PrevDay(at) ==
    IF at.day > 1 THEN [at EXCEPT !.day = @ - 1]
    ELSE IF at.month > 1
    THEN [at EXCEPT !.month = @ - 1, !.day = DaysIn(at.year, at.month - 1)]
    ELSE [at EXCEPT !.year = @ - 1, !.month = 12, !.day = 31]

\* a date and time h hours later, for -24 < h < 24
AddHours(at, h) ==
    LET total == at.hour + h
    IN IF total >= 24 THEN [NextDay(at) EXCEPT !.hour = total - 24]
       ELSE IF total < 0 THEN [PrevDay(at) EXCEPT !.hour = total + 24]
       ELSE [at EXCEPT !.hour = total]

\* what the `sale_date timestamp` column stores for a zone-aware datetime:
\* psycopg2 sends it with its offset, and the assignment to a timestamp without
\* time zone keeps the local time of that instant in the session's TimeZone
PgTimestampIn(aware, zone) ==
    LET local == AddHours(aware, UtcOffset(zone, aware) - UtcOffset(aware.tzinfo, aware))
    IN [year |-> local.year, month |-> local.month, day |-> local.day,
        hour |-> local.hour, minute |-> local.minute, second |-> local.second]

\* the row INSERT INTO properties stores for a cleaned record in a session of
\* the given time zone: the serial id, then the twelve values, sale_date
\* converted by the timestamp column and sale_price by the integer column
PropertyRow(table, rec, zone) ==
    [id |-> Len(table.rows) + 1,
     street_address |-> rec.street_address, city |-> rec.city,
     zip_code |-> rec.zip_code, state |-> rec.state,
     number_of_beds |-> rec.number_of_beds, number_of_baths |-> rec.number_of_baths,
     square_feet |-> rec.square_feet, property_type |-> rec.property_type,
     sale_date |-> PgTimestampIn(rec.sale_date, zone),
     sale_price |-> PgInt4In(rec.sale_price).val,
     latitude |-> rec.latitude, longitude |-> rec.longitude]

\* an insert that puts the new row before the rows already there
InsertProperty_Prepend(tables, rec) ==
    [tables EXCEPT !.properties.rows = <<PropertyRow(tables.properties, rec, tables.TimeZone)>> \o @]

InsertProperty(tables, rec) ==
    [tables EXCEPT !.properties.rows = Append(@, PropertyRow(tables.properties, rec, tables.TimeZone))]

\* a statement on a connection that publishes what it did at once
AfterStatement_Autocommit(committed, working) == working

\* what other sessions see after a statement of a connection in psycopg2's
\* default mode (autocommit off): the statement stays in the open transaction
AfterStatement(committed, working) == committed

\* a close that commits the open transaction
CloseConnection_Commit(committed, working) == working

\* what other sessions see after conn.close(): the open transaction is discarded
CloseConnection(committed, working) == committed

(***************************************************************************)
(* The files the import may find at PATH_TO_CSV.                           *)
(***************************************************************************)
CondoRow ==
    [GoodRow EXCEPT !.street = "51 OMAHA CT", !.type = "Condo",
                    !.beds = <<"3">>, !.price = <<"6", "8", "2", "1", "2">>]

BadBedsRow == [GoodRow EXCEPT !.beds = <<"x">>]

BadPriceRow == [GoodRow EXCEPT !.price = <<"x">>]

CsvRows == {GoodRow, CondoRow, BadBedsRow, BadPriceRow}

CsvFiles ==
    {[exists |-> TRUE, rows |-> f] : f \in UNION {[1..n -> CsvRows] : n \in 0..MaxRows}}

(***************************************************************************)
(* real_estate_import.py.                                                  *)
(***************************************************************************)
RosterUnchanged == UNCHANGED <<db, name, answer, caller, calls>>

ReportUnchanged == UNCHANGED result

CleanUnchanged == UNCHANGED <<rawRow, cleaned>>

\* lines 36-48: the module reads its configuration; int(None) raises TypeError
ImportStart ==
    /\ script = "idle"
    /\ \E e \in Environments(ImportVars), f \in CsvFiles \cup {NoFile} :
        /\ env' = e
        /\ csv' = f
        /\ IF "REAL_ESTATE_PORT" \in e
           THEN pc' = "connect" /\ exc' = "none"
           ELSE pc' = "end" /\ exc' = "TypeError"
    /\ script' = "import"
    /\ prior' = store
    /\ UNCHANGED <<store, conn, cur, tx, rowIdx, issued, commits, printed>>
    /\ RosterUnchanged /\ CleanUnchanged /\ ReportUnchanged

\* lines 107-110: connect and open a cursor
ImportConnect ==
    /\ script = "import" /\ pc = "connect"
    /\ \/ /\ conn' = "open" /\ cur' = "open" /\ tx' = store
          /\ pc' = "drop" /\ exc' = exc
       \/ /\ exc' = "OperationalError" /\ pc' = "except"
          /\ UNCHANGED <<conn, cur, tx>>
    /\ UNCHANGED <<store, script, env, csv, rowIdx, issued, commits, printed, prior>>
    /\ RosterUnchanged /\ CleanUnchanged /\ ReportUnchanged

\* line 113
ImportDrop ==
    /\ script = "import" /\ pc = "drop"
    /\ \/ /\ tx' = DropTable(tx, "properties")
          /\ pc' = "create" /\ exc' = exc
       \/ /\ exc' = "OperationalError" /\ pc' = "except"
          /\ tx' = tx
    /\ store' = AfterStatement(store, tx')
    /\ UNCHANGED <<script, env, conn, cur, csv, rowIdx, issued, commits, printed, prior>>
    /\ RosterUnchanged /\ CleanUnchanged /\ ReportUnchanged

\* line 116
ImportCreate ==
    /\ script = "import" /\ pc = "create"
    /\ \/ /\ tx' = CreateTable(tx, "properties")
          /\ pc' = "open" /\ exc' = exc
       \/ /\ exc' = "OperationalError" /\ pc' = "except"
          /\ tx' = tx
    /\ store' = AfterStatement(store, tx')
    /\ UNCHANGED <<script, env, conn, cur, csv, rowIdx, issued, commits, printed, prior>>
    /\ RosterUnchanged /\ CleanUnchanged /\ ReportUnchanged

\* lines 119-121: open(None) raises TypeError, a missing file FileNotFoundError
ImportOpen ==
    /\ script = "import" /\ pc = "open"
    /\ IF "PATH_TO_CSV" \notin env
       THEN exc' = "TypeError" /\ pc' = "except" /\ rowIdx' = rowIdx
       ELSE IF ~csv.exists
       THEN exc' = "FileNotFoundError" /\ pc' = "except" /\ rowIdx' = rowIdx
       ELSE exc' = exc /\ pc' = "loop" /\ rowIdx' = 1
    /\ UNCHANGED <<store, script, env, conn, cur, tx, csv, issued, commits, printed, prior>>
    /\ RosterUnchanged /\ CleanUnchanged /\ ReportUnchanged

\* lines 124-159: one turn of the loop, or its end
ImportRow ==
    /\ script = "import" /\ pc = "loop"
    /\ \/ /\ rowIdx > Len(csv.rows)
          /\ pc' = "commit"
          /\ UNCHANGED <<tx, rowIdx, issued, exc>>
       \/ /\ rowIdx <= Len(csv.rows)
          /\ ~clean_data(csv.rows[rowIdx]).ok
          /\ exc' = clean_data(csv.rows[rowIdx]).err /\ pc' = "except"
          /\ UNCHANGED <<tx, rowIdx, issued>>
       \/ /\ rowIdx <= Len(csv.rows)
          /\ clean_data(csv.rows[rowIdx]).ok
          /\ issued' = Append(issued, rowIdx)
          /\ LET cleaned_data == clean_data(csv.rows[rowIdx]).rec
             IN \/ /\ PgInt4In(cleaned_data.sale_price).ok
                   /\ tx' = InsertProperty(tx, cleaned_data)
                   /\ rowIdx' = rowIdx + 1
                   /\ pc' = "loop" /\ exc' = exc
                \/ /\ ~PgInt4In(cleaned_data.sale_price).ok
                   /\ exc' = "DataError" /\ pc' = "except"
                   /\ UNCHANGED <<tx, rowIdx>>
                \/ /\ exc' = "OperationalError" /\ pc' = "except"
                   /\ UNCHANGED <<tx, rowIdx>>
    /\ store' = AfterStatement(store, tx')
    /\ UNCHANGED <<script, env, conn, cur, csv, commits, printed, prior>>
    /\ RosterUnchanged /\ CleanUnchanged /\ ReportUnchanged

\* lines 163-164
ImportCommit ==
    /\ script = "import" /\ pc = "commit"
    /\ \/ /\ store' = tx
          /\ commits' = commits + 1
          /\ printed' = Append(printed, <<"Table created and data inserted successfully!">>)
          /\ pc' = "finally" /\ exc' = exc
       \/ /\ exc' = "OperationalError" /\ pc' = "except"
          /\ UNCHANGED <<store, commits, printed>>
    /\ UNCHANGED <<script, env, conn, cur, tx, csv, rowIdx, issued, prior>>
    /\ RosterUnchanged /\ CleanUnchanged /\ ReportUnchanged

\* a handler that skips the failed row and goes on with the next one
ImportExcept_SkipRow ==
    /\ script = "import" /\ pc = "except"
    /\ printed' = Append(printed, IF exc \in Psycopg2Errors THEN <<"Database Error", exc>>
                                  ELSE <<"Unexpected Error", exc>>)
    /\ exc' = "none"
    /\ IF rowIdx \in 1..Len(csv.rows)
       THEN pc' = "loop" /\ rowIdx' = rowIdx + 1
       ELSE pc' = "finally" /\ rowIdx' = rowIdx
    /\ UNCHANGED <<store, script, env, conn, cur, tx, csv, issued, commits, prior>>
    /\ RosterUnchanged /\ CleanUnchanged /\ ReportUnchanged

\* lines 166-171
ImportExcept ==
    /\ script = "import" /\ pc = "except"
    /\ printed' = Append(printed, IF exc \in Psycopg2Errors THEN <<"Database Error", exc>>
                                  ELSE <<"Unexpected Error", exc>>)
    /\ exc' = "none"
    /\ pc' = "finally"
    /\ UNCHANGED <<store, script, env, conn, cur, tx, csv, rowIdx, issued, commits, prior>>
    /\ RosterUnchanged /\ CleanUnchanged /\ ReportUnchanged

\* lines 173-179: reading the unbound name `cur` raises NameError; closing the
\* connection discards what its transaction did not commit
ImportFinally ==
    /\ script = "import" /\ pc = "finally"
    /\ IF cur = "unbound"
       THEN exc' = "NameError" /\ UNCHANGED <<conn, cur, tx>>
       ELSE exc' = exc /\ cur' = "closed" /\ conn' = "closed" /\ tx' = NoTables
    /\ pc' = "end"
    /\ store' = IF cur = "unbound" THEN store ELSE CloseConnection(store, tx)
    /\ UNCHANGED <<script, env, csv, rowIdx, issued, commits, printed, prior>>
    /\ RosterUnchanged /\ CleanUnchanged /\ ReportUnchanged

\* the interpreter exits; the operating system drops what was left open
ScriptExit ==
    /\ script # "idle" /\ pc = "end"
    /\ script' = "idle" /\ pc' = "idle" /\ env' = {}
    /\ conn' = "unbound" /\ cur' = "unbound" /\ tx' = NoTables
    /\ csv' = NoFile /\ rowIdx' = 0 /\ issued' = <<>> /\ commits' = 0 /\ calls' = 0
    /\ printed' = <<>> /\ result' = {} /\ exc' = "none"
    /\ db' = [connection |-> "None", cursor |-> "None"]
    /\ name' = "" /\ answer' = None /\ caller' = "nobody"
    /\ prior' = store
    /\ UNCHANGED store
    /\ CleanUnchanged

(***************************************************************************)
(* property_analysis.py.  The script has no try and never closes.          *)
(***************************************************************************)
RECURSIVE SumPrices(_)
SumPrices(rows) ==
    IF rows = <<>> THEN 0 ELSE rows[1].sale_price + SumPrices(Tail(rows))

OfType(rows, t) == SelectSeq(rows, LAMBDA r : r.property_type = t)

\* round(avg(sale_price)): the mean rounded to the nearest integer, halves
\* away from zero
RoundAvg(sum, n) ==
    IF sum >= 0 THEN (2 * sum + n) \div (2 * n)
    ELSE -((2 * (-sum) + n) \div (2 * n))

\* select property_type, round(avg(sale_price)) from properties group by property_type
GroupAverages(rows) ==
    {<<t, RoundAvg(SumPrices(OfType(rows, t)), Len(OfType(rows, t)))>> :
        t \in {rows[i].property_type : i \in 1..Len(rows)}}

\* lines 29-34
AnalysisStart ==
    /\ script = "idle"
    /\ \E e \in Environments(AnalysisVars) : env' = e
    /\ script' = "analysis"
    /\ pc' = "connect"
    /\ prior' = store
    /\ UNCHANGED <<store, conn, cur, tx, csv, rowIdx, issued, commits, printed, exc, result>>
    /\ RosterUnchanged /\ CleanUnchanged

\* lines 41-44: a failed connect is not caught
AnalysisConnect ==
    /\ script = "analysis" /\ pc = "connect"
    /\ \/ /\ conn' = "open" /\ cur' = "open" /\ tx' = store
          /\ pc' = "execute" /\ exc' = exc
       \/ /\ exc' = "OperationalError" /\ pc' = "end"
          /\ UNCHANGED <<conn, cur, tx>>
    /\ UNCHANGED <<store, script, env, csv, rowIdx, issued, commits, printed, prior, result>>
    /\ RosterUnchanged /\ CleanUnchanged

\* lines 50-54: a missing table is a ProgrammingError, not caught
AnalysisExecute ==
    /\ script = "analysis" /\ pc = "execute"
    /\ \/ /\ tx.properties.exists
          /\ result' = GroupAverages(tx.properties.rows)
          /\ pc' = "print" /\ exc' = exc
       \/ /\ ~tx.properties.exists
          /\ exc' = "ProgrammingError" /\ pc' = "end"
          /\ result' = result
       \/ /\ exc' = "OperationalError" /\ pc' = "end"
          /\ result' = result
    /\ UNCHANGED <<store, script, env, conn, cur, tx, csv, rowIdx, issued, commits,
                   printed, prior>>
    /\ RosterUnchanged /\ CleanUnchanged

\* line 58: the last statement; `conn` is still open when the script ends
AnalysisPrint ==
    /\ script = "analysis" /\ pc = "print"
    /\ printed' = Append(printed, <<result>>)
    /\ pc' = "end"
    /\ UNCHANGED <<store, script, env, conn, cur, tx, csv, rowIdx, issued, commits,
                   exc, prior, result>>
    /\ RosterUnchanged /\ CleanUnchanged

(***************************************************************************)
(* The two real-estate scripts, run one after another on one database.     *)
(***************************************************************************)
InitImport ==
    /\ Idle
    /\ store \in Databases
    /\ prior = store
    /\ rawRow = GoodRow
    /\ cleaned = NotCalled

NextImport ==
    \/ ImportStart \/ ImportConnect \/ ImportDrop \/ ImportCreate \/ ImportOpen
    \/ ImportRow \/ ImportCommit \/ ImportExcept \/ ImportFinally
    \/ AnalysisStart \/ AnalysisConnect \/ AnalysisExecute \/ AnalysisPrint
    \/ ScriptExit

SpecImport == InitImport /\ [][NextImport]_vars

(***************************************************************************)
(* class_roster_basic.py.  A students row is the tuple the cursor returns:  *)
(* <<id, name, favorite_food>>.                                            *)
(***************************************************************************)
SeededStudents == <<<<"Victor", "Chicken">>, <<"Esan", "Rice">>, <<"Pelumi", "Beans">>>>

\* INSERT INTO students (name, favorite_food) VALUES (%s, %s)
InsertStudent(tables, values) ==
    [tables EXCEPT !.students.rows =
        Append(@, <<Len(tables.students.rows) + 1, values[1], values[2]>>)]

ImportUnchanged == UNCHANGED <<csv, issued>>

\* lines 23-30
SeedStart ==
    /\ script = "idle"
    /\ \E e \in Environments(RosterVars) : env' = e
    /\ script' = "seed"
    /\ pc' = "connect"
    /\ prior' = store
    /\ UNCHANGED <<store, conn, cur, tx, rowIdx, commits, printed, exc>>
    /\ RosterUnchanged /\ CleanUnchanged /\ ReportUnchanged /\ ImportUnchanged

\* lines 34-39
SeedConnect ==
    /\ script = "seed" /\ pc = "connect"
    /\ \/ /\ conn' = "open" /\ cur' = "open" /\ tx' = store
          /\ pc' = "drop" /\ exc' = exc
       \/ /\ exc' = "OperationalError" /\ pc' = "except"
          /\ UNCHANGED <<conn, cur, tx>>
    /\ UNCHANGED <<store, script, env, rowIdx, commits, printed, prior>>
    /\ RosterUnchanged /\ CleanUnchanged /\ ReportUnchanged /\ ImportUnchanged

\* line 42
SeedDrop ==
    /\ script = "seed" /\ pc = "drop"
    /\ \/ /\ tx' = DropTable(tx, "students")
          /\ pc' = "create" /\ exc' = exc
       \/ /\ exc' = "OperationalError" /\ pc' = "except"
          /\ tx' = tx
    /\ store' = AfterStatement(store, tx')
    /\ UNCHANGED <<script, env, conn, cur, rowIdx, commits, printed, prior>>
    /\ RosterUnchanged /\ CleanUnchanged /\ ReportUnchanged /\ ImportUnchanged

\* line 63
SeedCreate ==
    /\ script = "seed" /\ pc = "create"
    /\ \/ /\ tx' = CreateTable(tx, "students")
          /\ pc' = "insert" /\ exc' = exc /\ rowIdx' = 1
       \/ /\ exc' = "OperationalError" /\ pc' = "except"
          /\ tx' = tx /\ rowIdx' = rowIdx
    /\ store' = AfterStatement(store, tx')
    /\ UNCHANGED <<script, env, conn, cur, commits, printed, prior>>
    /\ RosterUnchanged /\ CleanUnchanged /\ ReportUnchanged /\ ImportUnchanged

\* lines 67-69: the three inserts, one per step
SeedInsert ==
    /\ script = "seed" /\ pc = "insert"
    /\ \/ /\ tx' = InsertStudent(tx, SeededStudents[rowIdx])
          /\ rowIdx' = rowIdx + 1
          /\ pc' = IF rowIdx = Len(SeededStudents) THEN "commit" ELSE "insert"
          /\ exc' = exc
       \/ /\ exc' = "OperationalError" /\ pc' = "except"
          /\ UNCHANGED <<tx, rowIdx>>
    /\ store' = AfterStatement(store, tx')
    /\ UNCHANGED <<script, env, conn, cur, commits, printed, prior>>
    /\ RosterUnchanged /\ CleanUnchanged /\ ReportUnchanged /\ ImportUnchanged

\* lines 73-74
SeedCommit ==
    /\ script = "seed" /\ pc = "commit"
    /\ \/ /\ store' = tx
          /\ commits' = commits + 1
          /\ printed' = Append(printed, <<"Table created and data inserted successfully!">>)
          /\ pc' = "finally" /\ exc' = exc
       \/ /\ exc' = "OperationalError" /\ pc' = "except"
          /\ UNCHANGED <<store, commits, printed>>
    /\ UNCHANGED <<script, env, conn, cur, tx, rowIdx, prior>>
    /\ RosterUnchanged /\ CleanUnchanged /\ ReportUnchanged /\ ImportUnchanged

\* lines 76-82
SeedExcept ==
    /\ script = "seed" /\ pc = "except"
    /\ printed' = Append(printed, IF exc \in Psycopg2Errors THEN <<"Database Error:", exc>>
                                  ELSE <<"Unexpected Error", exc>>)
    /\ exc' = "none"
    /\ pc' = "finally"
    /\ UNCHANGED <<store, script, env, conn, cur, tx, rowIdx, commits, prior>>
    /\ RosterUnchanged /\ CleanUnchanged /\ ReportUnchanged /\ ImportUnchanged

\* lines 84-90: reading the unbound name `cur` raises NameError
SeedFinally ==
    /\ script = "seed" /\ pc = "finally"
    /\ IF cur = "unbound"
       THEN exc' = "NameError" /\ UNCHANGED <<conn, cur, tx>>
       ELSE exc' = exc /\ cur' = "closed" /\ conn' = "closed" /\ tx' = NoTables
    /\ pc' = "end"
    /\ store' = IF cur = "unbound" THEN store ELSE CloseConnection(store, tx)
    /\ UNCHANGED <<script, env, rowIdx, commits, printed, prior>>
    /\ RosterUnchanged /\ CleanUnchanged /\ ReportUnchanged /\ ImportUnchanged

(***************************************************************************)
(* db.py: the DB class, and its callers: terminal.py's ask_question, and a  *)
(* script that calls main on one instance, as the module's docstring does.  *)
(***************************************************************************)
Names == {"Esan", "Victor", "Nonexistent"}

ScriptUnchanged == UNCHANGED <<conn, cur, csv, rowIdx, issued, commits>>

\* select * from students where name = %s: the matching rows in scan order
query_template(rows, n) == SelectSeq(rows, LAMBDA r : r[2] = n)

\* a fetch that takes the last row of the result set
fetchone_Last(resultSet) ==
    IF resultSet = <<>> THEN None ELSE resultSet[Len(resultSet)]

\* cursor.fetchone() right after execute: the first row of the result set, or None
fetchone(resultSet) ==
    IF resultSet = <<>> THEN None ELSE resultSet[1]

\* the module is loaded (db.py lines 28-35) and a DB is constructed (46-56)
LookupStart ==
    /\ script = "idle"
    /\ \E e \in Environments(RosterVars) : env' = e
    /\ \E c \in {"terminal", "direct"} : caller' = c
    /\ script' = "lookup"
    /\ pc' = "ask"
    /\ db' = [connection |-> "None", cursor |-> "None"]
    /\ prior' = store
    /\ UNCHANGED <<store, tx, printed, exc, name, answer, calls>>
    /\ ScriptUnchanged /\ CleanUnchanged /\ ReportUnchanged

\* terminal.py lines 59-62, or a direct db.main(name): main is entered
MainCall ==
    /\ script = "lookup"
    /\ \/ pc = "ask"
       \/ pc \in {"returned", "returned_none"} /\ caller = "direct" /\ calls < MaxCalls
    /\ \E n \in Names : name' = n
    /\ calls' = calls + 1
    /\ answer' = None
    /\ pc' = "connect"
    /\ UNCHANGED <<store, script, env, tx, printed, exc, prior, db, caller>>
    /\ ScriptUnchanged /\ CleanUnchanged /\ ReportUnchanged

\* DB.initialize_connection, lines 66-73, called at line 118
MainInit ==
    /\ script = "lookup" /\ pc = "connect"
    /\ \/ /\ db' = [connection |-> "open", cursor |-> "open"]
          /\ tx' = store
          /\ pc' = "query" /\ exc' = exc
       \/ /\ exc' = "OperationalError" /\ pc' = "except"
          /\ UNCHANGED <<db, tx>>
    /\ UNCHANGED <<store, script, env, printed, prior, name, answer, caller, calls>>
    /\ ScriptUnchanged /\ CleanUnchanged /\ ReportUnchanged

\* DB.execute_query, lines 87-89, called at line 120: the value to return
MainQuery ==
    /\ script = "lookup" /\ pc = "query"
    /\ \/ /\ tx.students.exists
          /\ answer' = fetchone(query_template(tx.students.rows, name))
          /\ pc' = "finally_return" /\ exc' = exc
       \/ /\ ~tx.students.exists
          /\ exc' = "ProgrammingError" /\ pc' = "except"
          /\ answer' = answer
       \/ /\ exc' = "OperationalError" /\ pc' = "except"
          /\ answer' = answer
    /\ UNCHANGED <<store, script, env, tx, printed, prior, db, name, caller, calls>>
    /\ ScriptUnchanged /\ CleanUnchanged /\ ReportUnchanged

\* lines 121-123: the bare except
MainExcept ==
    /\ script = "lookup" /\ pc = "except"
    /\ printed' = Append(printed, <<"There was a problem!">>)
    /\ exc' = "none"
    /\ pc' = "finally"
    /\ UNCHANGED <<store, script, env, tx, prior, db, name, answer, caller, calls>>
    /\ ScriptUnchanged /\ CleanUnchanged /\ ReportUnchanged

\* lines 124-127 with DB.close_connection, lines 99-100: None has no close(), so
\* the call raises AttributeError out of main when no cursor was ever made
MainFinally ==
    /\ script = "lookup" /\ pc \in {"finally", "finally_return"}
    /\ IF db.cursor = "None"
       THEN /\ exc' = "AttributeError" /\ pc' = "raised"
            /\ answer' = None
            /\ UNCHANGED <<db, tx>>
       ELSE /\ db' = [connection |-> "closed", cursor |-> "closed"]
            /\ tx' = NoTables
            /\ pc' = IF pc = "finally_return" THEN "returned" ELSE "returned_none"
            /\ UNCHANGED <<exc, answer>>
    /\ store' = IF db.cursor = "None" THEN store ELSE CloseConnection(store, tx)
    /\ UNCHANGED <<script, env, printed, prior, name, caller, calls>>
    /\ ScriptUnchanged /\ CleanUnchanged /\ ReportUnchanged

\* an exception that left main is not caught by its caller
MainRaised ==
    /\ script = "lookup" /\ pc = "raised"
    /\ pc' = "end"
    /\ UNCHANGED <<store, script, env, tx, printed, exc, prior, db, name, answer,
                   caller, calls>>
    /\ ScriptUnchanged /\ CleanUnchanged /\ ReportUnchanged

\* a line with the two columns taken the other way round
ResultLine_Swapped(row) == <<row[3], " likes to eat ", row[2], ".">>

\* terminal.py line 66: f"{answer[1]} likes to eat {answer[2]}.", indices from 0
ResultLine(row) == <<row[2], " likes to eat ", row[3], ".">>

\* terminal.py line 66: subscripting None raises TypeError
TerminalPrint ==
    /\ script = "lookup" /\ caller = "terminal"
    /\ pc \in {"returned", "returned_none"}
    /\ IF answer = None
       THEN exc' = "TypeError" /\ printed' = printed
       ELSE exc' = exc /\ printed' = Append(printed, ResultLine(answer))
    /\ pc' = "end"
    /\ UNCHANGED <<store, script, env, tx, prior, db, name, answer, caller, calls>>
    /\ ScriptUnchanged /\ CleanUnchanged /\ ReportUnchanged

\* the calling script has nothing more to do
DirectDone ==
    /\ script = "lookup" /\ caller = "direct"
    /\ pc \in {"returned", "returned_none"}
    /\ pc' = "end"
    /\ UNCHANGED <<store, script, env, tx, printed, exc, prior, db, name, answer,
                   caller, calls>>
    /\ ScriptUnchanged /\ CleanUnchanged /\ ReportUnchanged

(***************************************************************************)
(* The roster scripts, run one after another on a database whose students  *)
(* table may hold anything when the first one starts.                      *)
(***************************************************************************)
StudentTables ==
    {NoTable} \cup
    {[exists |-> TRUE, rows |-> [i \in 1..Len(f) |-> <<i, f[i][1], f[i][2]>>]] :
        f \in UNION {[1..n -> {"Esan", "Victor"} \X {"Rice", "Beans"}] : n \in 0..MaxStudents}}

InitRoster ==
    /\ Idle
    /\ \E t \in StudentTables : store = [properties |-> NoTable, students |-> t]
    /\ prior = store
    /\ rawRow = GoodRow
    /\ cleaned = NotCalled

NextRoster ==
    \/ SeedStart \/ SeedConnect \/ SeedDrop \/ SeedCreate \/ SeedInsert
    \/ SeedCommit \/ SeedExcept \/ SeedFinally
    \/ LookupStart \/ MainCall \/ MainInit \/ MainQuery \/ MainExcept \/ MainFinally
    \/ MainRaised \/ TerminalPrint \/ DirectDone
    \/ ScriptExit

SpecRoster == InitRoster /\ [][NextRoster]_vars

(***************************************************************************)
(* Claims about the real-estate scripts, checked under SpecImport.         *)
(***************************************************************************)
Required(sc) ==
    IF sc = "import" THEN ImportVars
    ELSE IF sc = "analysis" THEN AnalysisVars
    ELSE RosterVars

\* C1 as stated: in every script that opens a store connection, on every exit
\* path, the connection that was acquired is closed before the script ends and
\* the cleanup step itself does not raise.
C1_Claim ==
    (script \in {"import", "seed", "analysis"} /\ pc = "end") =>
        /\ conn # "open"
        /\ exc # "NameError"

\* the rows the store holds for a file all of whose rows convert and insert
RECURSIVE Imported(_)
Imported(rows) ==
    IF rows = <<>> THEN <<>>
    ELSE LET front == Imported(SubSeq(rows, 1, Len(rows) - 1))
         IN Append(front, PropertyRow([rows |-> front], clean_data(rows[Len(rows)]).rec,
                                     store.TimeZone))

WellFormed(row) == clean_data(row).ok /\ PgInt4In(row.price).ok

WellFormedFile == csv.exists /\ \A i \in 1..Len(csv.rows) : WellFormed(csv.rows[i])

InOrder(n) == [i \in 1..n |-> i]

NoErrorPrinted ==
    \A i \in 1..Len(printed) : printed[i][1] \notin {"Database Error", "Unexpected Error"}

\* C2: for a CSV of N well-formed rows the import commits at most once, and only
\* after the insert of every one of the N rows; in every state before that commit
\* the committed tables are what they were when the run started, and after it the
\* properties table holds exactly the N rows; a run that ends without an error
\* has committed exactly once.
C2_SingleCommit ==
    (script = "import" /\ WellFormedFile) =>
        /\ commits <= 1
        /\ commits = 0 => store = prior
        /\ commits = 1 =>
            /\ issued = InOrder(Len(csv.rows))
            /\ store.properties = [exists |-> TRUE, rows |-> Imported(csv.rows)]
            /\ Len(store.properties.rows) = Len(csv.rows)
        /\ (pc = "end" /\ exc = "none" /\ NoErrorPrinted) => commits = 1

C2_Witness ==
    /\ script = "import" /\ pc = "end" /\ WellFormedFile
    /\ commits = 1
    /\ Len(csv.rows) = 2
    /\ Len(store.properties.rows) = 2
    /\ prior.properties.rows # store.properties.rows

\* the loop stopped at data row rowIdx: its conversion or its insert failed
LoopAborted ==
    /\ script = "import"
    /\ pc \in {"except", "finally", "end"}
    /\ csv.exists
    /\ rowIdx \in 1..Len(csv.rows)

\* C3 as stated: if a row is malformed or an insert is rejected, then after the
\* script ends zero rows are visible in the properties table, whatever the table
\* held before the run.
C3_Original ==
    (LoopAborted /\ pc = "end") => store.properties.rows = <<>>

\* C3 amended: after such a run the properties table is what it was before the
\* run, with the rows it held then: no row of the failed import is visible.
C3_RolledBackToPrior ==
    (LoopAborted /\ pc = "end") => store = prior

C3_Witness ==
    /\ LoopAborted /\ pc = "end"
    /\ rowIdx = 2
    /\ store.properties.rows # <<>>
    /\ store = prior

\* C4: the first row whose conversion or insert fails ends the batch: the rows
\* before it were inserted one by one, the failing row has no row in the
\* transaction (its INSERT was not sent when the conversion failed, and was the
\* statement the store rejected otherwise), no INSERT is sent for a later row, and
\* commit is not called on that run.
C4_AbortOnFirstFailure ==
    LoopAborted =>
        /\ commits = 0
        /\ \A i \in 1..(rowIdx - 1) : WellFormed(csv.rows[i])
        /\ issued = IF clean_data(csv.rows[rowIdx]).ok THEN InOrder(rowIdx)
                    ELSE InOrder(rowIdx - 1)
        /\ conn = "open" => Len(tx.properties.rows) = rowIdx - 1
        /\ store = prior

C4_Witness ==
    /\ LoopAborted /\ pc = "end"
    /\ rowIdx = 1 /\ Len(csv.rows) = 2
    /\ ~clean_data(csv.rows[1]).ok
    /\ WellFormed(csv.rows[2])
    /\ issued = <<>>
    /\ commits = 0

\* C5: the import sends one INSERT per data row in file order: the rows sent so
\* far are always rows 1, 2, ..., m with no gap and no repeat, and after a
\* successful run they are all N rows and the table holds row i of the file as
\* its i-th row.
C5_OneInsertPerRowInOrder ==
    script = "import" =>
        /\ \E m \in 0..Len(csv.rows) : issued = InOrder(m)
        /\ commits = 1 =>
            /\ issued = InOrder(Len(csv.rows))
            /\ Len(store.properties.rows) = Len(csv.rows)
            /\ \A i \in 1..Len(csv.rows) :
                /\ store.properties.rows[i].id = i
                /\ store.properties.rows[i].street_address = csv.rows[i].street
                /\ store.properties.rows[i].property_type = csv.rows[i].type

C5_Witness ==
    /\ script = "import" /\ commits = 1
    /\ issued = <<1, 2>>
    /\ csv.rows[1] # csv.rows[2]

\* C9 as stated: absence of any required configuration variable makes the script
\* fail before any connection attempt: no script reaches its connect call, or the
\* open of the source file, with a required setting unset.
C9_Claim ==
    /\ (script # "idle" /\ pc = "connect") => env = Required(script)
    /\ (script = "import" /\ pc = "open") => env = Required(script)

\* the import failed at some statement after its connection was opened
FailedAfterOpen ==
    /\ script = "import"
    /\ conn \in {"open", "closed"}
    /\ commits = 0
    /\ pc \in {"except", "finally", "end"}

\* C11: DROP TABLE and CREATE TABLE run in the same uncommitted transaction as
\* the inserts: while the run has not committed, the transaction sees the table
\* dropped and then recreated with only the rows inserted so far, and every
\* other session still sees the table of before the run; when the run fails
\* after the connection is open (malformed row, rejected insert, unreadable CSV,
\* failed statement) that table, with all the rows it held, is unchanged
\* afterward; and when the run succeeds the table holds exactly the rows of
\* the CSV, row i of the file as row i, and none of the earlier rows.
C11_DropCreateInTransaction ==
    /\ (script = "import" /\ conn = "open" /\ commits = 0) =>
        /\ store = prior
        /\ pc = "create" => ~tx.properties.exists
        /\ pc \in {"open", "loop", "commit"} =>
            /\ tx.properties.exists
            /\ Len(tx.properties.rows) = Len(issued)
    /\ FailedAfterOpen => store = prior
    /\ (script = "import" /\ commits = 1) =>
        /\ store.properties.exists
        /\ Len(store.properties.rows) = Len(csv.rows)
        /\ \A i \in 1..Len(csv.rows) :
            /\ store.properties.rows[i].id = i
            /\ store.properties.rows[i].street_address = csv.rows[i].street
            /\ store.properties.rows[i].number_of_beds = PyInt(csv.rows[i].beds).val
            /\ store.properties.rows[i].sale_price = PgInt4In(csv.rows[i].price).val

C11_Witness ==
    /\ FailedAfterOpen /\ pc = "end"
    /\ ~csv.exists
    /\ prior.properties.rows # <<>>
    /\ store.properties = prior.properties
    /\ printed = <<<<"Unexpected Error", "FileNotFoundError">>>>

(***************************************************************************)
(* Claims about the roster scripts, checked under SpecRoster.              *)
(***************************************************************************)
Matches(rows, n) == {i \in 1..Len(rows) : rows[i][2] = n}

SeededRows == <<<<1, "Victor", "Chicken">>, <<2, "Esan", "Rice">>, <<3, "Pelumi", "Beans">>>>

\* C6: when the connection and the query succeed, DB.main(name) returns the first
\* row of the students table whose name is the given name if there is one, and
\* None otherwise, without raising; with the three seeded students a lookup for
\* Esan returns the row whose favorite_food is Rice.
C6_LookupReturnsFirstMatch ==
    /\ (script = "lookup" /\ pc = "finally_return") => db.cursor = "open"
    /\ (script = "lookup" /\ pc = "returned") =>
        LET rows == store.students.rows
            m == Matches(rows, name)
        IN /\ exc = "none"
           /\ IF m = {} THEN answer = None
              ELSE answer = rows[CHOOSE i \in m : \A j \in m : i <= j]
           /\ (rows = SeededRows /\ name = "Esan") => answer[3] = "Rice"

C6_Witness ==
    /\ script = "lookup" /\ pc = "returned"
    /\ store.students.rows = SeededRows
    /\ name = "Esan"
    /\ answer = <<2, "Esan", "Rice">>

\* C7 as stated: for every call of DB.main, in any sequence of calls on one DB
\* instance, a connection failure or query failure ends with the message printed,
\* None returned, nothing raised, and close_connection run to completion so that
\* no connection stays open.
C7_Claim ==
    (script = "lookup" /\ pc \in {"returned_none", "raised"}) =>
        /\ pc = "returned_none"
        /\ exc = "none"
        /\ answer = None
        /\ db.connection # "open"
        /\ printed # <<>> /\ printed[Len(printed)] = <<"There was a problem!">>

\* C8: ask_question ends in an error, with no result line printed, whenever
\* DB.main gave it no row (the name was not found, or the lookup failed); it
\* prints "<name> likes to eat <food>." exactly when a row was returned.
C8_TerminalAssumesRow ==
    (script = "lookup" /\ caller = "terminal" /\ pc = "end") =>
        IF answer = None
        THEN /\ exc \in {"TypeError", "AttributeError"}
             /\ \A i \in 1..Len(printed) : printed[i] = <<"There was a problem!">>
        ELSE /\ exc = "none"
             /\ answer[2] = name
             /\ printed = <<<<name, " likes to eat ", answer[3], ".">>>>

C8_Witness ==
    /\ script = "lookup" /\ caller = "terminal" /\ pc = "end"
    /\ name = "Nonexistent"
    /\ store.students.rows = SeededRows
    /\ answer = None
    /\ exc = "TypeError"
    /\ printed = <<>>

====
